---- MODULE Spec2Model ----
(***************************************************************************)
(* Payment reconciliation of alx_travel_app (listings/views.py).           *)
(*                                                                         *)
(* The shared state is the database (Booking and Payment rows, written in  *)
(* autocommit mode: no transaction.atomic, no select_for_update anywhere   *)
(* in the source) and the Celery queue.  Requests are served by parallel   *)
(* handlers; a handler's position between two database or gateway          *)
(* operations is its pc, and what it holds in Python locals is its record. *)
(***************************************************************************)
EXTENDS Integers, Sequences, FiniteSets, TLC

\* ------------------------------------------------------------------ bounds
\* requests served in one behaviour
MaxRequests == 5

Handlers == {"h1", "h2"}
\* the users that hold bookings, and every authenticated requester
Owners == {"alice"}
Users == {"alice", "bob"}
Prices == {100}
Methods == {"telebirr"}

Ids == 1..MaxRequests
NoRef == 0

VARIABLES bookings, payments, queue, refsIssued, served, hs, out

vars == <<bookings, payments, queue, refsIssued, served, hs, out>>

db == <<bookings, payments, queue>>

\* ------------------------------------------------------------ data model
\* models.py: Booking.status choices and default
BookingStatuses == {"pending", "confirmed", "cancelled"}

\* models.py: Payment.payment_status choices and default
PaymentStatuses == {"pending", "completed", "failed"}

\* The columns a Payment row has; instance attributes loaded from a row.
PaymentFields ==
    {"payment_id", "booking", "transaction_id", "amount", "currency",
     "payment_status", "payment_method", "chapa_reference", "checkout_url",
     "created_at", "updated_at"}

NoPayment ==
    [booking |-> 0, transaction_id |-> NoRef, amount |-> 0,
     currency |-> "", payment_status |-> "", payment_method |-> "",
     chapa_reference |-> NoRef, checkout_url |-> NoRef, updated_at |-> 0]

NoAnswer == [net |-> "", json |-> FALSE, http |-> 0, status |-> "",
             data_status |-> "", method |-> ""]

\* A handler between requests.  In flight: the view it runs (op), its
\* position (pc), and its Python locals: the booking, tx_ref, the Payment
\* instance (pk, snap), the gateway's answer (ans), the gateway call it has
\* made (gw), and the number of Payment rows that existed at its guard read
\* (seen).
Idle ==
    [op |-> "idle", pc |-> "idle", booking |-> 0, tx |-> NoRef, pk |-> 0,
     snap |-> NoPayment, ans |-> NoAnswer, gw |-> "none", seen |-> 0]

\* The response most recently sent: by which handler, for which view, after
\* which gateway call and answer; for payment_status the payment_id and the
\* requester it answers (pk, user); and what the view logged about its
\* .delay() call (enq: "queued", "failed", or "none" when it made none).
Resp(h, op, code, kind, gw, a) ==
    [h |-> h, op |-> op, code |-> code, kind |-> kind, gw |-> gw, ans |-> a,
     pk |-> 0, user |-> "", enq |-> "none"]

NoResp == Resp("", "", 0, "", "none", NoAnswer)

Init ==
    /\ bookings = << >>
    /\ payments = << >>
    /\ queue = << >>
    /\ refsIssued = 0
    /\ served = 0
    /\ hs = [h \in Handlers |-> Idle]
    /\ out = NoResp

\* ------------------------------------------------------------- helpers
Rows(seq) == 1..Len(seq)

InFlight(h) == hs[h].pc # "idle"

\* a request arrives at an idle handler
Accepts(h) ==
    /\ hs[h].pc = "idle"
    /\ served < MaxRequests
    /\ served' = served + 1

\* the handler answers and is free again
Answer(h, code, kind) ==
    /\ hs' = [hs EXCEPT ![h] = Idle]
    /\ out' = Resp(h, hs[h].op, code, kind, hs[h].gw, hs[h].ans)

\* the guard filtering on a status no Payment ever has
HasCompletedPayment_WrongStatus(b) ==
    \E i \in Rows(payments) :
        /\ payments[i].booking = b
        /\ payments[i].payment_status = "confirmed"

\* booking.payments.filter(payment_status='completed').exists()
HasCompletedPayment(b) ==
    \E i \in Rows(payments) :
        /\ payments[i].booking = b
        /\ payments[i].payment_status = "completed"

\* Payment.objects.filter(transaction_id=tx_ref).first(): the row with the
\* lowest primary key among the matches, pk 0 standing for None.
\* the lookup without its filter: the first Payment there is
FirstPaymentPk_Unfiltered(tx) == IF payments = << >> THEN 0 ELSE 1

FirstPaymentPk(tx) ==
    LET hits == {i \in Rows(payments) : payments[i].transaction_id = tx}
    IN  IF hits = {} THEN 0
        ELSE CHOOSE i \in hits : \A j \in hits : i <= j

\* get_queryset + get_object: the booking, when it is one of the requester's.
OwnBooking(b, u) == b \in Rows(bookings) /\ bookings[b].user = u

\* ------------------------------------------------------------- gateway
\* What requests.post / requests.get can hand back: a RequestException, a
\* body that is not JSON, or a JSON envelope with an HTTP status and a
\* "status" member.
GatewayFailures ==
    {[NoAnswer EXCEPT !.net = "error"], [NoAnswer EXCEPT !.net = "ok"]}

InitializeAnswers ==
    GatewayFailures \cup
    {[NoAnswer EXCEPT !.net = "ok", !.json = TRUE, !.http = c, !.status = s] :
        c \in {200, 400}, s \in {"success", "failed"}}

VerifyAnswers ==
    GatewayFailures \cup
    {[NoAnswer EXCEPT !.net = "ok", !.json = TRUE, !.http = 400, !.status = s] :
        s \in {"success", "failed"}} \cup
    {[NoAnswer EXCEPT !.net = "ok", !.json = TRUE, !.http = 200,
                      !.status = "failed"]} \cup
    {[net |-> "ok", json |-> TRUE, http |-> 200, status |-> "success",
      data_status |-> "success", method |-> m] : m \in Methods} \cup
    {[net |-> "ok", json |-> TRUE, http |-> 200, status |-> "success",
      data_status |-> d, method |-> ""] : d \in {"failed", "pending"}}

\* the envelope test without the status_code comparison
EnvelopeOk_StatusOnly(a) == a.status = "success"

\* response.status_code == 200 and response_data.get('status') == 'success'
EnvelopeOk(a) == a.http = 200 /\ a.status = "success"

\* response_data['data']['checkout_url'] of an accepted initialize call
CheckoutUrl(tx) == tx

\* The status codes of the two except clauses for a body response.json()
\* cannot decode: requests >= 2.27 raises a RequestException subclass (503),
\* older versions a plain ValueError (500).
DecodeErrorCodes == {503, 500}

ErrorKind(code) ==
    IF code = 503 THEN "gateway_unavailable" ELSE "internal_error"

\* --------------------------------------------------------------- celery
\* tasks.py: the parameters of send_booking_confirmation_email, all required
BookingEmailParams ==
    {"booking_id", "user_email", "listing_name", "check_in_date",
     "check_out_date"}

\* views.py: the keyword arguments perform_create passes to .delay()
BookingEmailKwargs ==
    {"booking_id", "user_email", "listing_name", "check_in_date",
     "check_out_date", "guests"}

\* Task.delay binds the arguments to the task's signature before it
\* publishes (Task.typing): a keyword the task does not take raises.
SignatureAccepts(params, kwargs) ==
    kwargs \subseteq params /\ params \subseteq kwargs

\* models.py: the attributes of a Listing instance
ListingFields ==
    {"id", "title", "description", "location", "price_per_night",
     "available", "created_at"}

\* views.py: the attribute of booking.listing that both .delay() calls read
\* while building their keyword arguments (listing_name=booking.listing.name)
JobListingAttrs == {"name"}

\* An attribute the instance lacks raises AttributeError before .delay() is
\* entered; the except clause around the call catches it.
ArgumentsResolve(attrs, fields) == attrs \subseteq fields

Job(kind, b) == [kind |-> kind, booking |-> b]

\* logger.info("... queued ...") after .delay(), logger.error("Failed to
\* queue ...") in the except clause around it
Logged(sent) == IF sent THEN "queued" ELSE "failed"

\* ------------------------------------------------------ booking creation
\* a booking saved as confirmed at creation
NewBooking_Confirmed(u, price) ==
    [user |-> u, total_price |-> price, status |-> "confirmed"]

\* serializer.save(user=self.request.user, status='pending')
NewBooking(u, price) ==
    [user |-> u, total_price |-> price, status |-> "pending"]

\* the enqueue failure leaving perform_create as an unhandled exception
CreatedCode_Propagates(sent) == IF sent THEN 201 ELSE 500

\* perform_create's except clause logs the enqueue failure and returns;
\* create then answers 201 either way
CreatedCode(sent) == 201

\* BookingViewSet.create / perform_create
CreateBooking(h, u, price, valid, brokerUp) ==
    /\ Accepts(h)
    /\ IF ~valid
       THEN /\ out' = Resp(h, "create", 400, "validation_error", "none", NoAnswer)
            /\ UNCHANGED <<bookings, queue>>
       ELSE LET sent == /\ ArgumentsResolve(JobListingAttrs, ListingFields)
                        /\ SignatureAccepts(BookingEmailParams,
                                           BookingEmailKwargs)
                        /\ brokerUp
            IN  /\ bookings' = Append(bookings, NewBooking(u, price))
                /\ queue' =
                     IF sent
                     THEN Append(queue,
                                 Job("booking_confirmation", Len(bookings) + 1))
                     ELSE queue
                /\ out' = [Resp(h, "create", CreatedCode(sent),
                                "booking_created", "none", NoAnswer)
                           EXCEPT !.enq = Logged(sent)]
    /\ UNCHANGED <<payments, refsIssued, hs>>

\* ------------------------------------------------------ initiate_payment
\* booking = self.get_object()
InitiateLoad(h, b, u) ==
    /\ Accepts(h)
    /\ IF OwnBooking(b, u)
       THEN /\ hs' = [hs EXCEPT ![h] =
                        [Idle EXCEPT !.op = "initiate", !.pc = "init_guard",
                                     !.booking = b]]
            /\ UNCHANGED out
       ELSE /\ out' = Resp(h, "initiate", 404, "not_found", "none", NoAnswer)
            /\ UNCHANGED hs
    /\ UNCHANGED <<bookings, payments, queue, refsIssued>>

\* the already-paid guard, then tx_ref = f"tx-{uuid.uuid4()}"
InitiateGuard(h) ==
    /\ hs[h].pc = "init_guard"
    /\ IF HasCompletedPayment(hs[h].booking)
       THEN /\ Answer(h, 400, "already_paid")
            /\ UNCHANGED refsIssued
       ELSE /\ refsIssued' = refsIssued + 1
            /\ hs' = [hs EXCEPT ![h] =
                        [hs[h] EXCEPT !.pc = "init_gateway",
                                      !.tx = refsIssued + 1,
                                      !.seen = Len(payments)]]
            /\ UNCHANGED out
    /\ UNCHANGED <<bookings, payments, queue, served>>

\* the create call with the status a verified payment has
NewPayment_Completed(b, tx, amount, url) ==
    [booking |-> b, transaction_id |-> tx, amount |-> amount,
     currency |-> "ETB", payment_status |-> "completed", payment_method |-> "",
     chapa_reference |-> tx, checkout_url |-> url, updated_at |-> 1]

NewPayment(b, tx, amount, url) ==
    [booking |-> b, transaction_id |-> tx, amount |-> amount,
     currency |-> "ETB", payment_status |-> "pending", payment_method |-> "",
     chapa_reference |-> tx, checkout_url |-> url, updated_at |-> 1]

\* the success test with "or" for "and"
InitializeAccepted_Or(a) == a.http = 200 \/ a.status = "success"

\* whether the initialize answer leads to Payment.objects.create
InitializeAccepted(a) == EnvelopeOk(a)

\* requests.post(.../transaction/initialize) and what follows its answer
InitiateGateway(h, a, code) ==
    /\ hs[h].pc = "init_gateway"
    /\ hs' = [hs EXCEPT ![h] = Idle]
    /\ LET reply(c, k) == Resp(h, "initiate", c, k, "initialize", a)
       IN  IF a.net = "error"
           THEN /\ out' = reply(503, "gateway_unavailable")
                /\ UNCHANGED payments
           ELSE IF ~a.json
           THEN /\ out' = reply(code, ErrorKind(code))
                /\ UNCHANGED payments
           ELSE IF InitializeAccepted(a)
           THEN /\ payments' =
                     Append(payments,
                            NewPayment(hs[h].booking, hs[h].tx,
                                       bookings[hs[h].booking].total_price,
                                       CheckoutUrl(hs[h].tx)))
                /\ out' = reply(200, "payment_initiated")
           ELSE /\ out' = reply(400, "gateway_rejected")
                /\ UNCHANGED payments
    /\ UNCHANGED <<bookings, queue, refsIssued, served>>

\* ------------------------------------------------------- verify_payment
\* tx_ref = request.GET.get('tx_ref') or request.data.get('tx_ref')
VerifyStart(h, tx) ==
    /\ Accepts(h)
    /\ IF tx = NoRef
       THEN /\ out' = Resp(h, "verify", 400, "missing_tx_ref", "none", NoAnswer)
            /\ UNCHANGED hs
       ELSE /\ hs' = [hs EXCEPT ![h] =
                        [Idle EXCEPT !.op = "verify", !.pc = "verify_gateway",
                                     !.tx = tx]]
            /\ UNCHANGED out
    /\ UNCHANGED <<bookings, payments, queue, refsIssued>>

\* payment_info['status'] == 'success'
ReportsSuccess(a) == a.data_status = "success"

\* requests.get(.../transaction/verify/{tx_ref}), the envelope test and the
\* lookup of the Payment by transaction_id
VerifyGateway(h, a, code) ==
    /\ hs[h].pc = "verify_gateway"
    /\ LET reply(c, k) ==
              /\ out' = Resp(h, "verify", c, k, "verify", a)
              /\ hs' = [hs EXCEPT ![h] = Idle]
           pk == FirstPaymentPk(hs[h].tx)
       IN  IF a.net = "error"
           THEN reply(503, "gateway_unavailable")
           ELSE IF ~a.json
           THEN reply(code, ErrorKind(code))
           ELSE IF ~EnvelopeOk(a)
           THEN reply(400, "verification_failed")
           ELSE IF pk = 0
           THEN reply(404, "payment_not_found")
           ELSE /\ hs' = [hs EXCEPT ![h] =
                            [hs[h] EXCEPT !.gw = "verify", !.ans = a,
                                          !.pk = pk, !.snap = payments[pk],
                                          !.pc = IF ReportsSuccess(a)
                                                 THEN "verify_save_payment"
                                                 ELSE "verify_save_failed"]]
                /\ UNCHANGED out
    /\ UNCHANGED <<bookings, payments, queue, refsIssued, served>>

\* models.py: updated_at = DateTimeField(auto_now=True): every save() of a
\* Payment stamps the row with the time of the save, later than the stamp
\* the row carries (a logical clock per row)
Saved(p, row) == [p EXCEPT !.updated_at = row.updated_at + 1]

\* the instance after payment_status = 'completed', payment_method = ...;
\* verified_at is no column of Payment, so save() does not store it
\* the success branch also clearing the checkout URL
CompletedPayment_ClearsUrl(p, method) ==
    [p EXCEPT !.payment_status = "completed", !.payment_method = method,
              !.checkout_url = NoRef]

CompletedPayment(p, method) ==
    [p EXCEPT !.payment_status = "completed", !.payment_method = method]

\* payment.save() of the success branch: every column of the row is written
\* from the instance read at the lookup (snap stays the instance as read)
VerifySavePayment(h) ==
    /\ hs[h].pc = "verify_save_payment"
    /\ payments' = [payments EXCEPT ![hs[h].pk] =
                        Saved(CompletedPayment(hs[h].snap, hs[h].ans.method),
                              payments[hs[h].pk])]
    /\ hs' = [hs EXCEPT ![h] = [hs[h] EXCEPT !.pc = "verify_save_booking"]]
    /\ UNCHANGED <<bookings, queue, refsIssued, served, out>>

ConfirmedBooking(b) == [b EXCEPT !.status = "confirmed"]

\* booking = payment.booking; booking.status = 'confirmed'; booking.save()
VerifySaveBooking(h) ==
    /\ hs[h].pc = "verify_save_booking"
    /\ bookings' = [bookings EXCEPT ![hs[h].snap.booking] =
                        ConfirmedBooking(bookings[hs[h].snap.booking])]
    /\ hs' = [hs EXCEPT ![h] = [hs[h] EXCEPT !.pc = "verify_enqueue"]]
    /\ UNCHANGED <<payments, queue, refsIssued, served, out>>

\* the enqueue failure reaching the view's outer except Exception
VerifiedCode_Propagates(sent) == IF sent THEN 200 ELSE 500

\* the inner except clause logs the enqueue failure; the view goes on to
\* its 200 response either way
VerifiedCode(sent) == 200

\* send_payment_confirmation_email.delay(...) inside its own try/except,
\* then the 200 response
VerifyEnqueue(h, brokerUp) ==
    /\ hs[h].pc = "verify_enqueue"
    /\ LET sent == /\ ArgumentsResolve(JobListingAttrs, ListingFields)
                    /\ brokerUp
       IN  /\ queue' =
                IF sent
                THEN Append(queue,
                            Job("payment_confirmation", hs[h].snap.booking))
                ELSE queue
           /\ out' = [Resp(h, "verify", VerifiedCode(sent),
                           "payment_completed", hs[h].gw, hs[h].ans)
                      EXCEPT !.enq = Logged(sent)]
    /\ hs' = [hs EXCEPT ![h] = Idle]
    /\ UNCHANGED <<bookings, payments, refsIssued, served>>

\* the failure branch saving the instance without setting its status
FailedPayment_Unset(p) == p

FailedPayment(p) == [p EXCEPT !.payment_status = "failed"]

\* the else branch: payment.payment_status = 'failed'; payment.save()
VerifySaveFailed(h) ==
    /\ hs[h].pc = "verify_save_failed"
    /\ payments' = [payments EXCEPT ![hs[h].pk] =
                        Saved(FailedPayment(hs[h].snap), payments[hs[h].pk])]
    /\ Answer(h, 400, "payment_failed")
    /\ UNCHANGED <<bookings, queue, refsIssued, served>>

\* ------------------------------------------------------- payment_status
\* the attributes the projection reads from the Payment instance
ProjectionAttrs ==
    {"payment_id", "booking", "amount", "currency", "payment_status",
     "transaction_id", "checkout_url", "created_at", "updated_at",
     "verified_at"}

\* payment_status: everything, get_object_or_404 included, runs inside
\* try / except Exception, which answers 400
PaymentStatus(h, pid, u) ==
    /\ Accepts(h)
    /\ LET reply(c, k) == [Resp(h, "status", c, k, "none", NoAnswer)
                           EXCEPT !.pk = pid, !.user = u]
       IN  out' = IF pid \notin Rows(payments)
                  THEN reply(400, "status_error")
                  ELSE IF bookings[payments[pid].booking].user # u
                  THEN reply(403, "forbidden")
                  ELSE IF ProjectionAttrs \subseteq PaymentFields
                  THEN reply(200, "payment_projection")
                  ELSE reply(400, "status_error")
    /\ UNCHANGED <<bookings, payments, queue, refsIssued, hs>>

\* ------------------------------------------------------------ failures
\* The statements between the two writes of the success branch (the fetch
\* of payment.booking, booking.save()) raise: payment.save() has committed
\* already (autocommit), nothing more is written, and the except Exception
\* clause answers 500.
VerifyBookingError(h) ==
    /\ hs[h].pc = "verify_save_booking"
    /\ Answer(h, 500, "internal_error")
    /\ UNCHANGED <<bookings, payments, queue, refsIssued, served>>

Next ==
    \E h \in Handlers :
        \/ \E u \in Owners, price \in Prices, valid \in BOOLEAN, up \in BOOLEAN :
              CreateBooking(h, u, price, valid, up)
        \/ \E b \in Ids, u \in Users : InitiateLoad(h, b, u)
        \/ InitiateGuard(h)
        \/ \E a \in InitializeAnswers, code \in DecodeErrorCodes :
              InitiateGateway(h, a, code)
        \/ \E tx \in {NoRef} \cup Ids : VerifyStart(h, tx)
        \/ \E a \in VerifyAnswers, code \in DecodeErrorCodes :
              VerifyGateway(h, a, code)
        \/ VerifySavePayment(h)
        \/ VerifySaveBooking(h)
        \/ \E up \in BOOLEAN : VerifyEnqueue(h, up)
        \/ VerifySaveFailed(h)
        \/ \E pid \in Ids, u \in Users : PaymentStatus(h, pid, u)
        \/ VerifyBookingError(h)

Spec == Init /\ [][Next]_vars

\* ================================================================ claims
CompletedOf(b) ==
    {i \in Rows(payments) :
        payments[i].booking = b /\ payments[i].payment_status = "completed"}

\* C1: in every reachable state each booking has at most one linked Payment
\* whose payment_status is 'completed'.
C1_AtMostOneCompletedPerBooking ==
    \A b \in Rows(bookings) : Cardinality(CompletedOf(b)) <= 1

\* a step taken by handler h
Steps(h) == hs'[h] # hs[h]

\* C2: a verify_payment call that finds its Payment already 'completed' and
\* its Booking 'confirmed', and hears success again from the gateway (a
\* replay, no other request in flight) writes neither the Payment nor the
\* Booking again and enqueues nothing.
C2_ReplayIsNoOp ==
    [][\A h \in Handlers :
          ( /\ hs[h].op = "verify"
            /\ \A g \in Handlers \ {h} : ~InFlight(g)
            /\ hs[h].snap.payment_status = "completed"
            /\ ReportsSuccess(hs[h].ans)
            /\ bookings[hs[h].snap.booking].status = "confirmed"
            /\ Steps(h) )
          => /\ payments' = payments
             /\ bookings' = bookings
             /\ queue' = queue]_vars

\* C3: once a Payment's payment_status is 'completed' or 'failed', no later
\* step changes it.
C3_StatusTerminal ==
    [][\A i \in Rows(payments) :
          payments[i].payment_status \in {"completed", "failed"}
          => payments'[i].payment_status = payments[i].payment_status]_vars

\* C4: the success-path mutation is atomic: a Payment is 'completed' only
\* together with its Booking being 'confirmed', unless a verify handler is
\* at this moment between the two writes for that Payment.
C4_CompletedMeansConfirmed ==
    \A i \in Rows(payments) :
        payments[i].payment_status = "completed"
        => \/ bookings[payments[i].booking].status = "confirmed"
           \/ \E h \in Handlers :
                 hs[h].pc = "verify_save_booking" /\ hs[h].pk = i

\* a verify handler that has written the success-path Payment row
PastSuccessWrite(h) ==
    /\ hs[h].op = "verify"
    /\ hs[h].pc \in {"verify_save_booking", "verify_enqueue"}

\* C5: two concurrent verify_payment calls for the same tx_ref never both
\* perform the success-path mutation.
C5_OneSuccessMutationPerTxRef ==
    \A h1, h2 \in Handlers :
        (h1 # h2 /\ hs[h1].tx = hs[h2].tx)
        => ~(PastSuccessWrite(h1) /\ PastSuccessWrite(h2))

\* C6: the guard read and the Payment creation of initiate_payment are one
\* unit: when a handler persists its Payment, no other Payment of the same
\* booking has been persisted since that handler's guard read.
C6_GuardAndCreateAreOneUnit ==
    [][\A h \in Handlers :
          ( /\ hs[h].pc = "init_gateway"
            /\ Steps(h)
            /\ Len(payments') > Len(payments) )
          => ~ \E i \in Rows(payments) :
                  i > hs[h].seen /\ payments[i].booking = hs[h].booking]_vars

\* C7: initiate_payment on a booking that has a 'completed' Payment answers
\* 400 AlreadyPaid without a gateway call and without creating a Payment.
C7_AlreadyPaidRejected ==
    [][\A h \in Handlers :
          ( /\ hs[h].pc = "init_guard"
            /\ Steps(h)
            /\ CompletedOf(hs[h].booking) # {} )
          => /\ hs'[h] = Idle
             /\ out' = Resp(h, "initiate", 400, "already_paid", "none", NoAnswer)
             /\ payments' = payments
             /\ bookings' = bookings
             /\ queue' = queue
             /\ refsIssued' = refsIssued]_vars

C7_Witness ==
    /\ out.op = "initiate"
    /\ out.kind = "already_paid"
    /\ \E b \in Rows(bookings) : CompletedOf(b) # {}

\* C8: when the gateway initialize call fails, initiate_payment creates no
\* Payment and changes no stored state; a network failure answers 503, a
\* non-success gateway response answers 400.
C8_InitializeFailureLeavesNoTrace ==
    [][\A h \in Handlers :
          (hs[h].pc = "init_gateway" /\ Steps(h))
          => LET a == out'.ans
             IN  /\ out'.h = h /\ out'.gw = "initialize"
                 /\ a.net = "error"
                    => out'.code = 503 /\ UNCHANGED db
                 /\ (a.net = "ok" /\ ~a.json)
                    => out'.code \in {500, 503} /\ UNCHANGED db
                 /\ (a.net = "ok" /\ a.json
                        /\ ~(a.http = 200 /\ a.status = "success"))
                    => out'.code = 400 /\ UNCHANGED db]_vars

C8_Witness ==
    /\ out.op = "initiate"
    /\ out.kind = "gateway_rejected"
    /\ out.ans.http = 200
    /\ Len(payments) > 0

\* C9: a Booking is created 'pending', and becomes 'confirmed' only in the
\* booking write of a verify_payment call whose gateway answer reported
\* success for a Payment of that booking.
C9_ConfirmedOnlyByVerifiedPayment ==
    [][\A b \in Rows(bookings') :
          /\ b \notin Rows(bookings) => bookings'[b].status = "pending"
          /\ ( /\ b \in Rows(bookings)
               /\ bookings[b].status # "confirmed"
               /\ bookings'[b].status = "confirmed" )
             => \E h \in Handlers :
                   /\ hs[h].op = "verify"
                   /\ hs[h].pc = "verify_save_booking"
                   /\ Steps(h)
                   /\ hs[h].gw = "verify"
                   /\ EnvelopeOk(hs[h].ans)
                   /\ hs[h].ans.data_status = "success"
                   /\ hs[h].pk \in Rows(payments)
                   /\ payments[hs[h].pk].transaction_id = hs[h].tx
                   /\ payments[hs[h].pk].booking = b]_vars

C9_Witness ==
    \E b \in Rows(bookings) :
        /\ bookings[b].status = "confirmed"
        /\ out.op = "verify"
        /\ out.kind = "payment_completed"

AnswerUsed(h) == IF hs'[h].pc = "idle" THEN out'.ans ELSE hs'[h].ans

\* C11: when the verify call to the gateway fails (no answer, or an answer
\* whose envelope is not 200 with status "success"), verify_payment ends
\* there: no Payment, Booking or queue entry changes, and it answers 503
\* when the gateway was unavailable, 400 when it rejected the verification.
C11_VerifyFailureIsRetrySafe ==
    [][\A h \in Handlers :
          (hs[h].pc = "verify_gateway" /\ Steps(h))
          => LET a == AnswerUsed(h)
             IN  /\ a.net = "error"
                    => /\ hs'[h] = Idle
                       /\ out' = Resp(h, "verify", 503, "gateway_unavailable",
                                      "verify", a)
                       /\ UNCHANGED db
                 /\ (a.net = "ok" /\ a.json
                       /\ ~(a.http = 200 /\ a.status = "success"))
                    => /\ hs'[h] = Idle
                       /\ out' = Resp(h, "verify", 400, "verification_failed",
                                      "verify", a)
                       /\ UNCHANGED db]_vars

C11_Witness ==
    /\ out.op = "verify"
    /\ out.kind \in {"gateway_unavailable", "verification_failed"}
    /\ \E i \in Rows(payments) : payments[i].payment_status = "pending"
    /\ \A h \in Handlers : ~InFlight(h)

\* C12: an initiate_payment the gateway accepts (200, status "success")
\* appends exactly one Payment: linked to the handler's booking, amount the
\* booking's total price, currency ETB, status 'pending', a transaction
\* reference no earlier Payment carries, and the checkout URL the gateway
\* returned for it; no Booking changes, and the call answers 200.
C12_InitiatePersistsOnePendingPayment ==
    [][\A h \in Handlers :
          ( /\ hs[h].pc = "init_gateway"
            /\ Steps(h)
            /\ out'.ans.net = "ok" /\ out'.ans.json
            /\ out'.ans.http = 200 /\ out'.ans.status = "success" )
          => /\ Len(payments') = Len(payments) + 1
             /\ \A i \in Rows(payments) : payments'[i] = payments[i]
             /\ LET p == payments'[Len(payments')]
                IN  /\ p.booking = hs[h].booking
                    /\ p.amount = bookings[hs[h].booking].total_price
                    /\ p.currency = "ETB"
                    /\ p.payment_status = "pending"
                    /\ p.transaction_id = hs[h].tx
                    /\ \A i \in Rows(payments) :
                          payments[i].transaction_id # p.transaction_id
                    /\ p.checkout_url = CheckoutUrl(hs[h].tx)
             /\ bookings' = bookings
             /\ queue' = queue
             /\ out'.code = 200 /\ out'.kind = "payment_initiated"]_vars

C12_Witness ==
    /\ out.op = "initiate" /\ out.kind = "payment_initiated"
    /\ Len(payments) >= 2
    /\ \A h \in Handlers : ~InFlight(h)

\* A step that serves one payment_status request (the view is one step:
\* it reads, and answers).
StatusStep == served' = served + 1 /\ hs' = hs /\ out'.op = "status"

\* C13: payment_status answers 404 when no Payment has the requested id and
\* 403 when the Payment exists and the requester does not own its booking;
\* neither answer is the projection, and nothing stored changes.
C13_StatusNotFoundAndForbidden ==
    [][StatusStep
       => /\ out'.pk \notin Rows(payments) => out'.code = 404
          /\ ( /\ out'.pk \in Rows(payments)
               /\ bookings[payments[out'.pk].booking].user # out'.user )
             => out'.code = 403
          /\ UNCHANGED <<db, refsIssued>>]_vars

\* C14: payment_status asked by the owner of the booking of an existing
\* Payment answers 200 with the projection, whatever the payment_status of
\* the row, and changes nothing stored.
C14_OwnerGetsProjection ==
    [][( /\ StatusStep
         /\ out'.pk \in Rows(payments)
         /\ bookings[payments[out'.pk].booking].user = out'.user )
       => /\ out'.code = 200
          /\ out'.kind = "payment_projection"
          /\ UNCHANGED <<db, refsIssued>>]_vars

\* A step that serves one booking creation (validation, save, enqueue and
\* response are one step).
CreateStep == served' = served + 1 /\ hs' = hs /\ out'.op = "create"

\* C15: a booking creation whose enqueue of the confirmation fails still
\* stores the booking, in status 'pending', and answers 201.
C15_EnqueueFailureKeepsBooking ==
    [][(CreateStep /\ out'.enq = "failed")
       => /\ out'.code = 201
          /\ Len(bookings') = Len(bookings) + 1
          /\ \A b \in Rows(bookings) : bookings'[b] = bookings[b]
          /\ bookings'[Len(bookings')].status = "pending"
          /\ payments' = payments]_vars

C15_Witness ==
    /\ out.op = "create" /\ out.enq = "failed" /\ out.code = 201
    /\ Len(bookings) >= 1
    /\ bookings[Len(bookings)].status = "pending"

\* C16: every booking creation that answers 201 puts exactly one
\* booking-confirmation job for the new booking on the queue.
C16_CreateEnqueuesOneJob ==
    [][(CreateStep /\ out'.code = 201)
       => queue' = Append(queue,
                          Job("booking_confirmation", Len(bookings')))]_vars

\* C17: when the gateway answers the verify call with an accepted envelope
\* and no Payment carries the tx_ref, verify_payment answers 404 and ends:
\* no Payment, Booking or queue entry changes.
C17_UnknownTxRefIsNotFound ==
    [][\A h \in Handlers :
          ( /\ hs[h].pc = "verify_gateway"
            /\ Steps(h)
            /\ AnswerUsed(h).net = "ok" /\ AnswerUsed(h).json
            /\ AnswerUsed(h).http = 200 /\ AnswerUsed(h).status = "success"
            /\ \A i \in Rows(payments) :
                  payments[i].transaction_id # hs[h].tx )
          => /\ hs'[h] = Idle
             /\ out' = Resp(h, "verify", 404, "payment_not_found", "verify",
                            AnswerUsed(h))
             /\ UNCHANGED db]_vars

C17_Witness ==
    /\ out.op = "verify" /\ out.code = 404
    /\ out.ans.http = 200 /\ out.ans.status = "success"
    /\ Len(payments) >= 1
    /\ \A h \in Handlers : ~InFlight(h)

\* C18: no step removes a Payment or changes its owning booking, transaction
\* reference, amount, currency, gateway reference or checkout URL; what a
\* step changes of an existing Payment is its payment_status, its
\* payment_method and its save stamp.
C18_PaymentIdentityIsFrozen ==
    [][\A i \in Rows(payments) :
          /\ i \in Rows(payments')
          /\ payments'[i].booking = payments[i].booking
          /\ payments'[i].transaction_id = payments[i].transaction_id
          /\ payments'[i].amount = payments[i].amount
          /\ payments'[i].currency = payments[i].currency
          /\ payments'[i].chapa_reference = payments[i].chapa_reference
          /\ payments'[i].checkout_url = payments[i].checkout_url]_vars

C18_Witness ==
    \E i \in Rows(payments) :
        /\ payments[i].payment_status = "completed"
        /\ payments[i].updated_at >= 3
        /\ payments[i].checkout_url = CheckoutUrl(payments[i].transaction_id)
        /\ payments[i].amount = bookings[payments[i].booking].total_price

\* C19: a Booking in status 'confirmed' has a Payment whose payment_status
\* is 'completed'.
C19_ConfirmedHasCompletedPayment ==
    \A b \in Rows(bookings) :
        bookings[b].status = "confirmed" => CompletedOf(b) # {}

\* C20: when the enqueue of the payment confirmation fails, the step leaves
\* the Payment and the Booking as the success branch wrote them (the Booking
\* 'confirmed'; the Payment 'completed' when the handler's save is the only
\* write the row has had since the handler read it) and the call answers
\* 200, payment_completed.
C20_EnqueueFailureKeepsReconciliation ==
    [][\A h \in Handlers :
          (hs[h].pc = "verify_enqueue" /\ Steps(h) /\ out'.enq = "failed")
          => /\ payments' = payments
             /\ bookings' = bookings
             /\ bookings[hs[h].snap.booking].status = "confirmed"
             /\ payments[hs[h].pk].updated_at = hs[h].snap.updated_at + 1
                => payments[hs[h].pk].payment_status = "completed"
             /\ hs'[h] = Idle
             /\ out'.h = h /\ out'.op = "verify"
             /\ out'.code = 200 /\ out'.kind = "payment_completed"]_vars

C20_Witness ==
    /\ out.op = "verify" /\ out.kind = "payment_completed"
    /\ out.enq = "failed" /\ out.code = 200
    /\ \E i \in Rows(payments) :
          /\ payments[i].payment_status = "completed"
          /\ bookings[payments[i].booking].status = "confirmed"
    /\ \A h \in Handlers : ~InFlight(h)

====
